---- MODULE Spec2Model ----
(***************************************************************************)
(* A model of app.py: the Streamlit page that collects clippings and       *)
(* uploaded files in two session lists (recortes, archivos) and builds one *)
(* combined PDF or two grouped PDFs from them.                             *)
(*                                                                         *)
(* Text is a sequence of one-character strings.  A byte buffer is a record *)
(* that says what the bytes decode to (fmt), because the decoders of the   *)
(* libraries (PIL, pypdf, python-docx) are outside the repository: what    *)
(* the model keeps of them is which calls raise and what the others yield. *)
(***************************************************************************)
EXTENDS Integers, Sequences, FiniteSets, TLC

VARIABLES
    recortes,     \* st.session_state.recortes: the list of clipping items
    archivos,     \* st.session_state.archivos: the list of uploaded-file items
    HAS_SORTABLE, \* whether streamlit_sortable could be imported
    clock,        \* the last value int(time.time()*1000) returned
    nseq,         \* how many items were ever inserted (history, not in the code)
    pc,           \* where the current script run stands
    out,          \* what the current script run has shown as its result
    call          \* the last direct call of a pure function, with its result

vars == <<recortes, archivos, HAS_SORTABLE, clock, nseq, pc, out, call>>

-----------------------------------------------------------------------------
(* Bounds of the model.                                                    *)

MaxInserts == 2   \* items ever inserted in one session
MaxList == 3      \* length of a list handed to merge_pdfs directly

-----------------------------------------------------------------------------
(* Text.                                                                   *)

Upper == <<"A", "B", "C", "D", "E", "F", "G", "H", "I", "J", "K", "L", "M",
           "N", "O", "P", "Q", "R", "S", "T", "U", "V", "W", "X", "Y", "Z">>
Lower == <<"a", "b", "c", "d", "e", "f", "g", "h", "i", "j", "k", "l", "m",
           "n", "o", "p", "q", "r", "s", "t", "u", "v", "w", "x", "y", "z">>
Digits == {"0", "1", "2", "3", "4", "5", "6", "7", "8", "9"}

\* str.lower() on one character
LowerChar(c) ==
    IF \E i \in 1..Len(Upper) : Upper[i] = c
    THEN Lower[CHOOSE i \in 1..Len(Upper) : Upper[i] = c]
    ELSE c

\* str.lower()
LowerStr(s) == [i \in 1..Len(s) |-> LowerChar(s[i])]

\* str.strip(): leading and trailing white space removed
Strip(s) ==
    LET keep == {i \in 1..Len(s) : s[i] # " "}
    IN  IF keep = {} THEN <<>>
        ELSE LET a == CHOOSE i \in keep : \A j \in keep : i <= j
                 b == CHOOSE i \in keep : \A j \in keep : j <= i
             IN  SubSeq(s, a, b)

\* str.split(","): the pieces between the commas, empty pieces kept
RECURSIVE SplitComma(_)
SplitComma(s) ==
    LET commas == {i \in 1..Len(s) : s[i] = ","}
    IN  IF commas = {} THEN <<s>>
        ELSE LET c == CHOOSE i \in commas : \A j \in commas : i <= j
             IN  <<SubSeq(s, 1, c - 1)>> \o SplitComma(SubSeq(s, c + 1, Len(s)))

\* t in s, for strings
IsSubstr(t, s) ==
    \E k \in 0..(Len(s) - Len(t)) : \A m \in 1..Len(t) : s[k + m] = t[m]

\* os.path.splitext(filename): <<root, ext>>, the extension from the last dot
\* on, a dot that starts the name not counting
SplitExt(filename) ==
    LET dots == {i \in 2..Len(filename) :
                    filename[i] = "." /\ \E j \in 1..(i - 1) : filename[j] # "."}
    IN  IF dots = {} THEN <<filename, <<>>>>
        ELSE LET d == CHOOSE i \in dots : \A j \in dots : j <= i
             IN  <<SubSeq(filename, 1, d - 1), SubSeq(filename, d, Len(filename))>>

\* str.strip("."): leading and trailing dots removed
StripDots(s) ==
    LET keep == {i \in 1..Len(s) : s[i] # "."}
    IN  IF keep = {} THEN <<>>
        ELSE LET a == CHOOSE i \in keep : \A j \in keep : i <= j
                 b == CHOOSE i \in keep : \A j \in keep : j <= i
             IN  SubSeq(s, a, b)

normalize_ext(filename) == StripDots(LowerStr(SplitExt(filename)[2]))

\* re.sub(r"[^A-Za-z0-9_\-]", "_", s)
Sanitize(s) ==
    [i \in 1..Len(s) |->
        IF \/ \E k \in 1..Len(Upper) : Upper[k] = s[i] \/ Lower[k] = s[i]
           \/ s[i] \in Digits \/ s[i] = "_" \/ s[i] = "-"
        THEN s[i] ELSE "_"]

-----------------------------------------------------------------------------
(* Byte buffers and what they decode to.                                   *)
(*   fmt = "pdf":   PdfReader opens it; pages are its pages; bad = 0 when  *)
(*                  every page can be added to a writer, bad = k when      *)
(*                  adding page k raises (an object of that page cannot be *)
(*                  read)                                                  *)
(*   fmt = "img":   PIL decodes it to a w x h bitmap                       *)
(*   fmt = "docx":  python-docx and the native converter can open it       *)
(*   fmt = "junk":  non-empty bytes no decoder accepts                     *)
(*   fmt = "empty": b""                                                    *)
(*   fmt = "None":  Python's None                                          *)
(* tag tells the buffers of different inputs apart.                        *)

Buf(fmt, tag, pages, bad, w, h, text) ==
    [fmt |-> fmt, tag |-> tag, pages |-> pages, bad |-> bad, w |-> w, h |-> h,
     text |-> text]

None == Buf("None", 0, <<>>, 0, 0, 0, <<>>)
EmptyBytes == Buf("empty", 0, <<>>, 0, 0, 0, <<>>)
Junk(tag) == Buf("junk", tag, <<>>, 0, 0, 0, <<>>)
Page(tag, no, w, h, kind) == [of |-> tag, no |-> no, w |-> w, h |-> h, kind |-> kind]
PdfBytes(tag, pages) == Buf("pdf", tag, pages, 0, 0, 0, <<>>)
\* an uploaded PDF of n A4 pages
PdfFile(tag, n, bad) ==
    Buf("pdf", tag, [k \in 1..n |-> Page(tag, k, 595, 842, "pdf")], bad, 0, 0, <<>>)
ImageFile(tag, w, h) == Buf("img", tag, <<>>, 0, w, h, <<>>)
DocxFile(tag, text) == Buf("docx", tag, <<>>, 0, 0, 0, text)

\* Python's truth value of an Optional[bytes]
Truthy(b) == b.fmt \notin {"None", "empty"}

\* safe_open_image: the RGB bitmap, or None when PIL cannot decode the bytes
safe_open_image(img_bytes) ==
    IF img_bytes.fmt = "img" THEN img_bytes ELSE None

\* safe_read_docx_text: "" without python-docx or when the file cannot be
\* parsed, else the text of its paragraphs
safe_read_docx_text(file_bytes, env) ==
    IF ~env.docxlib THEN <<>>
    ELSE IF file_bytes.fmt = "docx" THEN file_bytes.text
    ELSE <<>>

\* image_to_pdf_exact_bytes: a one-page PDF of the bitmap's size; None for an
\* empty bitmap and when the renderer in use raises
image_to_pdf_exact_bytes(img, kind, env) ==
    IF img.w <= 0 \/ img.h <= 0 THEN None
    ELSE IF env.reportlab
         THEN IF img.tag \in env.renderFails THEN None
              ELSE PdfBytes(img.tag, <<Page(img.tag, 1, img.w, img.h, kind)>>)
         ELSE IF img.tag \in env.renderFails THEN None
              ELSE PdfBytes(img.tag, <<Page(img.tag, 1, img.w, img.h, kind)>>)

\* docx_to_pdf_bytes: the native converter's PDF when there is one and it
\* succeeds; else the extracted text (or the placeholder) painted on a
\* 1654 x 2339 page and rendered; b"" when the renderer gives None
docx_to_pdf_bytes(docx_bytes, env) ==
    IF env.native = "ok" /\ docx_bytes.fmt = "docx"
    THEN PdfFile(docx_bytes.tag, 1, 0)
    ELSE LET text == safe_read_docx_text(docx_bytes, env)
             kind == IF text # <<>> THEN "text" ELSE "placeholder"
             page == ImageFile(docx_bytes.tag, 1654, 2339)
             pdf == image_to_pdf_exact_bytes(page, kind, env)
         IN  IF Truthy(pdf) THEN pdf ELSE EmptyBytes

\* a scratch file or directory of the conversion of the buffer with that tag
TmpFile(kind, tag) == [kind |-> kind, of |-> tag]

\* no scratch file made
NoFiles == [made |-> {}, removed |-> {}]

\* the scratch files of two steps of one call
BothFiles(f, g) == [made |-> f.made \cup g.made, removed |-> f.removed \cup g.removed]

\* safe_read_docx_text and its scratch file: none without python-docx; else
\* the .docx file is written, and os.remove(path) comes after Document(path)
\* inside the try, so it is reached only when the document parses
safe_read_docx_text_files(file_bytes, env) ==
    IF ~env.docxlib THEN NoFiles
    ELSE LET path == TmpFile("docx", file_bytes.tag)
         IN  IF file_bytes.fmt = "docx"
             THEN [made |-> {path}, removed |-> {path}]
             ELSE [made |-> {path}, removed |-> {}]

\* image_to_pdf_exact_bytes and its scratch file: with ReportLab the .jpg file
\* is made and the finally clause unlinks it, whether the drawing raises or
\* not; the PIL fallback makes no file
image_to_pdf_exact_bytes_files(img, env) ==
    IF img.w <= 0 \/ img.h <= 0 THEN NoFiles
    ELSE IF env.reportlab
         THEN LET tmp == TmpFile("jpg", img.tag)
              IN  [made |-> {tmp}, removed |-> {tmp}]
         ELSE NoFiles

\* docx_to_pdf_bytes and its scratch files: with a native converter the
\* directory of the with statement, gone when the block is left by return or
\* by exception; in the fallback the files of the two functions it calls
docx_to_pdf_bytes_files(docx_bytes, env) ==
    LET td == TmpFile("dir", docx_bytes.tag)
        native == IF env.native # "absent"
                  THEN [made |-> {td}, removed |-> {td}]
                  ELSE NoFiles
    IN  IF env.native = "ok" /\ docx_bytes.fmt = "docx" THEN native
        ELSE BothFiles(native,
                 BothFiles(safe_read_docx_text_files(docx_bytes, env),
                           image_to_pdf_exact_bytes_files(
                               ImageFile(docx_bytes.tag, 1654, 2339), env)))

BlankPage == Page(0, 1, 800, 600, "blank")

\* what one input adds to the writer: nothing when PdfReader raises, the pages
\* before the one whose add_page raises otherwise
Added(data) ==
    IF data.fmt # "pdf" THEN <<>>
    ELSE IF data.bad = 0 THEN data.pages
    ELSE SubSeq(data.pages, 1, data.bad - 1)

RECURSIVE WriterPages(_)
WriterPages(pdf_bytes_list) ==
    IF pdf_bytes_list = <<>> THEN <<>>
    ELSE WriterPages(SubSeq(pdf_bytes_list, 1, Len(pdf_bytes_list) - 1))
            \o Added(pdf_bytes_list[Len(pdf_bytes_list)])

merge_pdfs(pdf_bytes_list) ==
    LET pages == WriterPages(pdf_bytes_list)
    IN  IF Len(pages) = 0 THEN PdfBytes(0, <<BlankPage>>)
        ELSE PdfBytes(0, pages)

\* _match_any comparing the texts as they are, whatever the ignore flag
_match_any_case_kept(name, csv, ignore) ==
    IF Strip(csv) = <<>> THEN FALSE
    ELSE LET parts == SplitComma(csv)
             toks == {Strip(parts[i]) : i \in {j \in 1..Len(parts) : Strip(parts[j]) # <<>>}}
         IN  \E t \in toks : IsSubstr(t, name)

\* _match_any: whether name contains one of the comma-separated keywords
_match_any(name, csv, ignore) ==
    IF Strip(csv) = <<>> THEN FALSE
    ELSE LET parts == SplitComma(csv)
             toks == {Strip(parts[i]) : i \in {j \in 1..Len(parts) : Strip(parts[j]) # <<>>}}
             base == IF ignore THEN LowerStr(name) ELSE name
         IN  \E t \in toks : IsSubstr(IF ignore THEN LowerStr(t) ELSE t, base)

-----------------------------------------------------------------------------
(* The registry: the two session lists and their items.                    *)

Str_png == <<"p", "n", "g">>
Str_pdf == <<"p", "d", "f">>
Str_docx == <<"d", "o", "c", "x">>
Str_recorte == <<"r", "e", "c", "o", "r", "t", "e">>
ImageExts == {Str_png, <<"j", "p", "g">>, <<"j", "p", "e", "g">>}

\* [*st.session_state.recortes, *st.session_state.archivos]
AllItems(recs, arcs) == recs \o arcs

Max(S) == CHOOSE x \in S : \A y \in S : y <= x

\* next_global_order looking at the uploaded files only
next_global_order_files_only(recs, arcs) ==
    LET vals == {arcs[i].order : i \in 1..Len(arcs)}
    IN  (IF vals # {} THEN Max(vals) ELSE 0) + 1

\* next_global_order: 1 + the largest order of the two lists, 1 when both are empty
next_global_order(recs, arcs) ==
    LET vals == {recs[i].order : i \in 1..Len(recs)}
                    \cup {arcs[i].order : i \in 1..Len(arcs)}
    IN  (IF vals # {} THEN Max(vals) ELSE 0) + 1

\* the name a clipping gets from the text typed for it
ClipName(text, default) ==
    Sanitize(IF Strip(text) # <<>> THEN Strip(text) ELSE default) \o <<".">> \o Str_png

\* the item appended by the clipping import
NewRecorte(ms, name_input, png, order, seq) ==
    [id |-> [kind |-> "recorte", ms |-> ms, name |-> <<>>],
     name |-> ClipName(name_input, <<>>),
     bytes |-> png, ext |-> Str_png, include |-> TRUE, order |-> order, seq |-> seq]

\* the item appended for one uploaded file
NewArchivo(ms, fname, data, order, seq) ==
    [id |-> [kind |-> "archivo", ms |-> ms, name |-> fname],
     name |-> fname,
     bytes |-> data, ext |-> normalize_ext(fname), include |-> TRUE, order |-> order,
     seq |-> seq]

\* the bytes of an uploaded file of the given content, as the seq-th insertion
FileBytes(content, seq) ==
    CASE content = "pdf1" -> PdfFile(seq, 1, 0)
      [] content = "pdf2" -> PdfFile(seq, 2, 0)
      [] content = "pdf2bad2" -> PdfFile(seq, 2, 2)
      [] content = "img" -> ImageFile(seq, 800, 600)
      [] content = "docx" -> DocxFile(seq, <<"h", "i">>)
      [] content = "docxnotext" -> DocxFile(seq, <<>>)
      [] content = "pdf0" -> PdfFile(seq, 0, 0)
      [] content = "empty" -> Buf("empty", seq, <<>>, 0, 0, 0, <<>>)
      [] OTHER -> Junk(seq)

\* the upload loop: each file is appended with the clock reading and the
\* next order of that moment
RECURSIVE AppendFiles(_, _, _, _, _)
AppendFiles(recs, arcs, up, times, seq0) ==
    IF up = <<>> THEN arcs
    ELSE AppendFiles(recs,
                     Append(arcs, NewArchivo(times[1], up[1].name,
                                             FileBytes(up[1].content, seq0 + 1),
                                             next_global_order(recs, arcs), seq0 + 1)),
                     Tail(up), Tail(times), seq0 + 1)

\* the first item of a list whose widget key is already taken by an earlier
\* item of the list (Streamlit raises there and the run ends), 0 when none
DupAt(list) ==
    LET dups == {i \in 1..Len(list) : \E j \in 1..(i - 1) : list[j].id = list[i].id}
    IN  IF dups = {} THEN 0 ELSE CHOOSE i \in dups : \A j \in dups : i <= j

RecRendered(recs, i) == DupAt(recs) = 0 \/ i < DupAt(recs)
ArcRendered(recs, arcs, i) == DupAt(recs) = 0 /\ (DupAt(arcs) = 0 \/ i < DupAt(arcs))
RunCrashes(recs, arcs) == DupAt(recs) # 0 \/ DupAt(arcs) # 0

\* the clipping section: every rendered clipping gets the name in its text box,
\* which shows the name without its extension unless the user typed another
RenameAll(recs) ==
    [i \in 1..Len(recs) |->
        IF RecRendered(recs, i)
        THEN [recs[i] EXCEPT !.name = ClipName(SplitExt(recs[i].name)[1], Str_recorte)]
        ELSE recs[i]]

\* sorted(items, key=order): Python's sort is stable
RECURSIVE SortByOrder(_)
SortByOrder(items) ==
    IF items = <<>> THEN <<>>
    ELSE LET m == CHOOSE i \in 1..Len(items) :
                    \A j \in 1..Len(items) :
                        \/ items[i].order < items[j].order
                        \/ items[i].order = items[j].order /\ i <= j
             rest == [k \in 1..(Len(items) - 1) |-> IF k < m THEN items[k] ELSE items[k + 1]]
         IN  <<items[m]>> \o SortByOrder(rest)

IsIncluded(it) == it.include

\* [x for x in items if x["include"]]
RECURSIVE Filter(_)
Filter(items) ==
    IF items = <<>> THEN <<>>
    ELSE (IF IsIncluded(items[1]) THEN <<items[1]>> ELSE <<>>) \o Filter(Tail(items))

\* the drag and drop list: the included items, sorted by order
included_items(recs, arcs) == SortByOrder(Filter(AllItems(recs, arcs)))

\* the orders after the drag and drop section: the item at place idx of the
\* list the component returns gets order idx
Reordered(list, new_items) ==
    [i \in 1..Len(list) |->
        IF \E idx \in 1..Len(new_items) :
              new_items[idx].id = list[i].id
        THEN [list[i] EXCEPT !.order =
                 Max({idx \in 1..Len(new_items) : new_items[idx].id = list[i].id})]
        ELSE list[i]]

-----------------------------------------------------------------------------
(* Generation.                                                             *)

\* the dispatch on the extension, in both generation loops
item_to_pdf(it, env) ==
    IF it.ext = Str_pdf THEN it.bytes
    ELSE IF it.ext \in ImageExts
         THEN LET img == safe_open_image(it.bytes)
              IN  IF img.fmt # "None" THEN image_to_pdf_exact_bytes(img, "image", env)
                  ELSE None
    ELSE IF it.ext = Str_docx THEN docx_to_pdf_bytes(it.bytes, env)
    ELSE None

\* items_sorted with the uploaded files ahead of the clippings
items_sorted_files_first(recs, arcs) == SortByOrder(arcs \o recs)

\* items_sorted of both generation handlers
items_sorted(recs, arcs) == SortByOrder(AllItems(recs, arcs))

\* the combined loop without the test of the include flag
RECURSIVE CombinedList_all_items(_, _)
CombinedList_all_items(items, env) ==
    IF items = <<>> THEN <<>>
    ELSE LET pdfb == item_to_pdf(items[1], env)
         IN  (IF Truthy(pdfb) THEN <<pdfb>> ELSE <<>>)
                \o CombinedList_all_items(Tail(items), env)

\* the list pdfs the combined loop builds
RECURSIVE CombinedList(_, _)
CombinedList(items, env) ==
    IF items = <<>> THEN <<>>
    ELSE LET it == items[1]
             pdfb == item_to_pdf(it, env)
         IN  (IF it.include /\ Truthy(pdfb) THEN <<pdfb>> ELSE <<>>)
                \o CombinedList(Tail(items), env)

NoEnv == [native |-> "absent", docxlib |-> FALSE, reportlab |-> FALSE, renderFails |-> {}]

\* nothing shown.  The fields are the locals of the generation handlers when
\* they end; locals is the value pdfb had at the end of each turn of the loop
\* that was not skipped, with the item of that turn
NoOut == [kind |-> "none", locals |-> <<>>, pdfs |-> <<>>, pdf |-> None,
          A_list |-> <<>>, B_list |-> <<>>, pdfA |-> None, pdfB |-> None,
          env |-> NoEnv, kwA |-> <<>>, kwB |-> <<>>, ignore_case |-> FALSE]

\* pdfb of every turn of a generation loop that the include flag lets through
RECURSIVE LoopLocals(_, _)
LoopLocals(items, env) ==
    IF items = <<>> THEN <<>>
    ELSE (IF items[1].include
          THEN <<[seq |-> items[1].seq, pdfb |-> item_to_pdf(items[1], env)]>>
          ELSE <<>>) \o LoopLocals(Tail(items), env)

\* the combined handler merging whatever pdfs holds
build_combined_always_merging(recs, arcs, env) ==
    LET pdfs == CombinedList(items_sorted(recs, arcs), env)
        locals == LoopLocals(items_sorted(recs, arcs), env)
    IN  [NoOut EXCEPT !.kind = "combined", !.locals = locals, !.pdfs = pdfs,
                      !.pdf = merge_pdfs(pdfs)]

\* the combined handler: a warning when pdfs is empty, else the merge
build_combined(recs, arcs, env) ==
    LET pdfs == CombinedList(items_sorted(recs, arcs), env)
        locals == LoopLocals(items_sorted(recs, arcs), env)
    IN  IF pdfs = <<>> THEN [NoOut EXCEPT !.kind = "warning", !.locals = locals]
        ELSE [NoOut EXCEPT !.kind = "combined", !.locals = locals, !.pdfs = pdfs,
                           !.pdf = merge_pdfs(pdfs)]

\* the group an item's PDF is appended to
Route(name, kwA, kwB, ignore_case) ==
    IF _match_any(name, kwA, ignore_case) THEN "A"
    ELSE IF _match_any(name, kwB, ignore_case) THEN "B"
    ELSE "B"

\* the list A_list (g = "A") or B_list (g = "B") the grouped loop builds
RECURSIVE GroupList(_, _, _, _, _, _)
GroupList(items, env, kwA, kwB, ignore_case, g) ==
    IF items = <<>> THEN <<>>
    ELSE LET it == items[1]
             pdfb == item_to_pdf(it, env)
         IN  (IF it.include /\ Truthy(pdfb) /\ Route(it.name, kwA, kwB, ignore_case) = g
              THEN <<pdfb>> ELSE <<>>)
                \o GroupList(Tail(items), env, kwA, kwB, ignore_case, g)

build_grouped(recs, arcs, env, kwA, kwB, ignore_case) ==
    LET A_list == GroupList(items_sorted(recs, arcs), env, kwA, kwB, ignore_case, "A")
        B_list == GroupList(items_sorted(recs, arcs), env, kwA, kwB, ignore_case, "B")
    IN  [NoOut EXCEPT !.kind = "grouped",
                      !.locals = LoopLocals(items_sorted(recs, arcs), env),
                      !.A_list = A_list, !.B_list = B_list,
                      !.pdfA = IF A_list # <<>> THEN merge_pdfs(A_list) ELSE None,
                      !.pdfB = IF B_list # <<>> THEN merge_pdfs(B_list) ELSE None]

-----------------------------------------------------------------------------
(* Inputs.                                                                 *)

MaxBatch == 2     \* files in one upload

SeqsUpTo(S, n) == UNION {[1..k -> S] : k \in 0..n}

\* the readings of the millisecond clock the model tells apart
ClockValues == {0, 1}

\* clock readings of a loop of n steps: each at or after the one before
AnyClock(n) ==
    {t \in [1..n -> {c \in ClockValues : c >= clock}] :
        \A i \in 1..(n - 1) : t[i] <= t[i + 1]}

\* clock readings of a loop of n steps a millisecond or more apart
TickingClock(n) == {[i \in 1..n |-> clock + i]}

\* the clock readings of a loop of n steps in the sessions modelled
Readings(ticking, n) == IF ticking THEN TickingClock(n) ELSE AnyClock(n)

Perms(n) == {f \in [1..n -> 1..n] : \A i, j \in 1..n : f[i] = f[j] => i = j}

\* what a generation request meets: the optional libraries of the process
\* and the items (by tag) whose page rendering raises
Envs(natives, docxlibs, reportlabs, fails) ==
    [native : natives, docxlib : docxlibs, reportlab : reportlabs, renderFails : fails]

Tags(recs, arcs) == {AllItems(recs, arcs)[i].seq : i \in 1..Len(recs) + Len(arcs)}

-----------------------------------------------------------------------------
(* The script run.  Every user action starts one run of the whole script:  *)
(* the handler of the button pressed and the two item sections (one step,  *)
(* which ends the run when a widget key is taken twice), the drag and drop *)
(* section, then the generation handlers.  st.rerun() starts the script    *)
(* again at once, with no button pressed.                                  *)

AfterWidgets(recs, arcs) == IF RunCrashes(recs, arcs) THEN "idle" ELSE "sortable"

\* "Limpiar todo": both lists cleared, then st.rerun() over the empty lists
ClearAll ==
    /\ pc = "idle"
    /\ recortes' = <<>>
    /\ archivos' = <<>>
    /\ out' = NoOut
    /\ UNCHANGED <<HAS_SORTABLE, clock, nseq, pc, call>>

\* "Importar ahora": grab is what the clipboard gives
ImportClipping(names, ticking) ==
    /\ pc = "idle"
    /\ nseq < MaxInserts
    /\ \E name_input \in names, grab \in {"noaccess", "noimage", "image"}, t \in Readings(ticking, 1) :
          IF grab = "image" /\ Strip(name_input) # <<>>
          THEN LET new == Append(recortes,
                      NewRecorte(t[1], name_input, ImageFile(nseq + 1, 400, 300),
                                 next_global_order(recortes, archivos), nseq + 1))
               IN
               /\ recortes' = RenameAll(new)
               /\ clock' = t[1]
               /\ nseq' = nseq + 1
          ELSE /\ recortes' = RenameAll(recortes)
               /\ UNCHANGED <<clock, nseq>>
    /\ pc' = AfterWidgets(recortes', archivos)
    /\ out' = NoOut
    /\ UNCHANGED <<archivos, HAS_SORTABLE, call>>

\* "Agregar a la lista": the files of the uploader, appended one by one
UploadFiles(files, ticking) ==
    /\ pc = "idle"
    /\ \E up \in SeqsUpTo(files, MaxBatch) :
          /\ nseq + Len(up) <= MaxInserts
          /\ \E times \in Readings(ticking, Len(up)) :
                /\ archivos' = AppendFiles(recortes, archivos, up, times, nseq)
                /\ clock' = IF up = <<>> THEN clock ELSE times[Len(up)]
          /\ nseq' = nseq + Len(up)
    /\ recortes' = RenameAll(recortes)
    /\ pc' = AfterWidgets(recortes', archivos')
    /\ out' = NoOut
    /\ UNCHANGED <<HAS_SORTABLE, call>>

\* a run started by a widget that changes no item (a generation button)
StartRun ==
    /\ pc = "idle"
    /\ recortes' = RenameAll(recortes)
    /\ pc' = AfterWidgets(recortes', archivos)
    /\ out' = NoOut
    /\ UNCHANGED <<archivos, HAS_SORTABLE, clock, nseq, call>>

\* the "Incluir" box of a clipping
SetRecInclude ==
    /\ pc = "idle"
    /\ \E i \in 1..Len(recortes) :
          /\ RecRendered(recortes, i)
          /\ recortes' = RenameAll([recortes EXCEPT ![i].include = ~recortes[i].include])
    /\ pc' = AfterWidgets(recortes', archivos)
    /\ out' = NoOut
    /\ UNCHANGED <<archivos, HAS_SORTABLE, clock, nseq, call>>

\* the "Orden" field of a clipping
SetRecOrder(orders) ==
    /\ pc = "idle"
    /\ \E i \in 1..Len(recortes), v \in orders :
          /\ RecRendered(recortes, i)
          /\ v # recortes[i].order
          /\ recortes' = RenameAll([recortes EXCEPT ![i].order = v])
    /\ pc' = AfterWidgets(recortes', archivos)
    /\ out' = NoOut
    /\ UNCHANGED <<archivos, HAS_SORTABLE, clock, nseq, call>>

\* the "Nombre" box of a clipping
RenameRec(names) ==
    /\ pc = "idle"
    /\ \E i \in 1..Len(recortes), new_name \in names :
          /\ RecRendered(recortes, i)
          /\ recortes' = [RenameAll(recortes) EXCEPT ![i].name = ClipName(new_name, Str_recorte)]
          /\ recortes' # recortes
    /\ pc' = AfterWidgets(recortes', archivos)
    /\ out' = NoOut
    /\ UNCHANGED <<archivos, HAS_SORTABLE, clock, nseq, call>>

Pop(list, i) == [k \in 1..(Len(list) - 1) |-> IF k < i THEN list[k] ELSE list[k + 1]]

\* the bin of a clipping: pop(i), then st.rerun()
DeleteRec ==
    /\ pc = "idle"
    /\ \E i \in 1..Len(recortes) :
          /\ RecRendered(recortes, i)
          /\ recortes' = RenameAll(Pop(recortes, i))
    /\ pc' = AfterWidgets(recortes', archivos)
    /\ out' = NoOut
    /\ UNCHANGED <<archivos, HAS_SORTABLE, clock, nseq, call>>

\* the "Incluir" box of a file
SetArcInclude ==
    /\ pc = "idle"
    /\ \E i \in 1..Len(archivos) :
          /\ ArcRendered(recortes, archivos, i)
          /\ archivos' = [archivos EXCEPT ![i].include = ~archivos[i].include]
    /\ recortes' = RenameAll(recortes)
    /\ pc' = AfterWidgets(recortes', archivos')
    /\ out' = NoOut
    /\ UNCHANGED <<HAS_SORTABLE, clock, nseq, call>>

\* the "Orden" field of a file
SetArcOrder(orders) ==
    /\ pc = "idle"
    /\ \E i \in 1..Len(archivos), v \in orders :
          /\ ArcRendered(recortes, archivos, i)
          /\ v # archivos[i].order
          /\ archivos' = [archivos EXCEPT ![i].order = v]
    /\ recortes' = RenameAll(recortes)
    /\ pc' = AfterWidgets(recortes', archivos')
    /\ out' = NoOut
    /\ UNCHANGED <<HAS_SORTABLE, clock, nseq, call>>

\* the bin of a file: pop(i), then st.rerun()
DeleteArc ==
    /\ pc = "idle"
    /\ \E i \in 1..Len(archivos) :
          /\ ArcRendered(recortes, archivos, i)
          /\ archivos' = Pop(archivos, i)
    /\ recortes' = RenameAll(recortes)
    /\ pc' = AfterWidgets(recortes', archivos')
    /\ out' = NoOut
    /\ UNCHANGED <<HAS_SORTABLE, clock, nseq, call>>

\* the drag and drop section: with the component, the included items get
\* the orders 1, 2, ... of their places in the list the component returns
Sortable ==
    /\ pc = "sortable"
    /\ LET inc == included_items(recortes, archivos)
       IN  IF HAS_SORTABLE /\ inc # <<>>
           THEN \E perm \in Perms(Len(inc)) :
                   LET new_items == [k \in 1..Len(inc) |-> inc[perm[k]]]
                   IN  /\ recortes' = Reordered(recortes, new_items)
                       /\ archivos' = Reordered(archivos, new_items)
           ELSE UNCHANGED <<recortes, archivos>>
    /\ pc' = "generate"
    /\ UNCHANGED <<HAS_SORTABLE, clock, nseq, out, call>>

\* "Generar PDF combinado"
GenerateCombined(envs) ==
    /\ pc = "generate"
    /\ \E env \in envs :
          out' = [build_combined(recortes, archivos, env) EXCEPT !.env = env]
    /\ pc' = "shown"
    /\ UNCHANGED <<recortes, archivos, HAS_SORTABLE, clock, nseq, call>>

\* "Generar PDFs por grupos"
GenerateGrouped(envs, keywordsA, keywordsB) ==
    /\ pc = "generate"
    /\ \E env \in envs :
       \E kwA \in keywordsA, kwB \in keywordsB, ignore_case \in BOOLEAN :
          out' = [build_grouped(recortes, archivos, env, kwA, kwB, ignore_case)
                     EXCEPT !.env = env, !.kwA = kwA, !.kwB = kwB, !.ignore_case = ignore_case]
    /\ pc' = "shown"
    /\ UNCHANGED <<recortes, archivos, HAS_SORTABLE, clock, nseq, call>>

\* the result stays on the page until the user's next action starts a run
NextAction ==
    /\ pc = "shown"
    /\ pc' = "idle"
    /\ out' = NoOut
    /\ UNCHANGED <<recortes, archivos, HAS_SORTABLE, clock, nseq, call>>

\* a run in which no generation button was pressed
NoGenerate ==
    /\ pc = "generate"
    /\ pc' = "idle"
    /\ UNCHANGED <<recortes, archivos, HAS_SORTABLE, clock, nseq, out, call>>

-----------------------------------------------------------------------------
(* The session, with the inputs that exercise the registry: two kinds of   *)
(* files, any clock, any order typed in.                                   *)

Init ==
    /\ recortes = <<>>
    /\ archivos = <<>>
    /\ HAS_SORTABLE \in BOOLEAN
    /\ clock = 0
    /\ nseq = 0
    /\ pc = "idle"
    /\ out = NoOut
    /\ call = [fn |-> "none"]

ClipNames == {<<"I", "n">>, <<" ">>}
NewNames == {<<"x", ".">>}
OrderInputs == {0 - 1, 1, 2}
RegFiles == {[name |-> <<"I", "n", ".", "p", "d", "f">>, content |-> "pdf1"]}
RegEnvs == Envs({"absent"}, {TRUE}, {TRUE}, {{}})
RegKeywords == {<<"i", "n">>}

Next ==
    \/ ClearAll
    \/ ImportClipping(ClipNames, FALSE)
    \/ UploadFiles(RegFiles, FALSE)
    \/ StartRun
    \/ SetRecInclude
    \/ SetRecOrder(OrderInputs)
    \/ RenameRec(NewNames)
    \/ DeleteRec
    \/ SetArcInclude
    \/ SetArcOrder(OrderInputs)
    \/ DeleteArc
    \/ Sortable
    \/ GenerateCombined(RegEnvs)
    \/ GenerateGrouped(RegEnvs, RegKeywords, RegKeywords)
    \/ NoGenerate
    \/ NextAction

Spec == Init /\ [][Next]_vars

-----------------------------------------------------------------------------
(* The session, with the inputs that exercise the conversions: files of    *)
(* every kind, sound and corrupt, every outcome of the optional libraries  *)
(* and of the renderer, keyword lists of every shape.  The clock ticks     *)
(* between two insertions and no order is typed in.                        *)

GenClipNames == {<<"i", "N", " ", "v">>}
GenFiles == {[name |-> <<"I", "n", ".", "p", "d", "f">>, content |-> "pdf1"],
             [name |-> <<"x", ".", "p", "d", "f">>, content |-> "pdf2bad2"],
             [name |-> <<"x", ".", "p", "d", "f">>, content |-> "junk"],
             [name |-> <<"I", "n", ".", "P", "N", "G">>, content |-> "img"],
             [name |-> <<"x", ".", "j", "p", "g">>, content |-> "junk"],
             [name |-> <<"i", "n", ".", "d", "o", "c", "x">>, content |-> "docx"],
             [name |-> <<"x", ".", "d", "o", "c", "x">>, content |-> "junk"]}

\* the tags of the included items a generation request has to render
RenderTags(recs, arcs) ==
    {AllItems(recs, arcs)[i].seq : i \in {j \in 1..Len(recs) + Len(arcs) :
        AllItems(recs, arcs)[j].include /\ AllItems(recs, arcs)[j].ext # Str_pdf}}

\* whether a generation request has a Word document to convert
HasDocx(recs, arcs) ==
    \E i \in 1..Len(recs) + Len(arcs) :
        AllItems(recs, arcs)[i].include /\ AllItems(recs, arcs)[i].ext = Str_docx

\* every outcome that can tell on the items at hand
GenEnvs ==
    IF HasDocx(recortes, archivos)
    THEN Envs({"absent", "fails", "ok"}, BOOLEAN, BOOLEAN, SUBSET RenderTags(recortes, archivos))
    ELSE Envs({"absent"}, {TRUE}, BOOLEAN, SUBSET RenderTags(recortes, archivos))
PlainEnvs == Envs({"absent"}, {TRUE}, {TRUE}, {{}})
PlainKeywords == {<<"i", "n">>}

NextGen ==
    \/ ClearAll
    \/ ImportClipping(GenClipNames, TRUE)
    \/ UploadFiles(GenFiles, TRUE)
    \/ StartRun
    \/ SetRecInclude
    \/ SetArcInclude
    \/ Sortable
    \/ GenerateCombined(GenEnvs)
    \/ GenerateGrouped(GenEnvs, PlainKeywords, PlainKeywords)
    \/ NoGenerate
    \/ NextAction

InitGen == Init /\ ~HAS_SORTABLE

SpecGen == InitGen /\ [][NextGen]_vars

-----------------------------------------------------------------------------
(* The session, with the inputs that exercise the keyword grouping: names  *)
(* in mixed case and keyword lists of every shape.                         *)

GroupFiles == {[name |-> <<"I", "n", ".", "p", "d", "f">>, content |-> "pdf1"],
               [name |-> <<"x", ".", "p", "d", "f">>, content |-> "junk"],
               [name |-> <<"x", ".", "P", "N", "G">>, content |-> "junk"]}
KeywordsA == {<<>>, <<" ", ",", " ">>, <<"i", "n">>, <<"x", ",", " ", "N", " ">>,
              <<",", "n", ".", "p">>, <<"I", "N", "_">>, <<"i", " ", "n">>}
KeywordsB == {<<>>, <<"x">>, <<"I", "n">>}

NextGroup ==
    \/ ClearAll
    \/ ImportClipping(GenClipNames, TRUE)
    \/ UploadFiles(GroupFiles, TRUE)
    \/ StartRun
    \/ SetRecInclude
    \/ SetArcInclude
    \/ Sortable
    \/ GenerateCombined(PlainEnvs)
    \/ GenerateGrouped(PlainEnvs, KeywordsA, KeywordsB)
    \/ NoGenerate
    \/ NextAction

SpecGroup == Init /\ [][NextGroup]_vars

-----------------------------------------------------------------------------
(* merge_pdfs called directly on a list of buffers.                        *)

MergeContents == {"pdf1", "pdf2", "pdf2bad2", "pdf0", "junk"}

CallMerge ==
    /\ \E cs \in SeqsUpTo(MergeContents, MaxList) :
          LET pdf_bytes_list == [i \in 1..Len(cs) |-> FileBytes(cs[i], i)]
          IN  call' = [fn |-> "merge_pdfs", arg |-> pdf_bytes_list,
                       ret |-> merge_pdfs(pdf_bytes_list)]
    /\ UNCHANGED <<recortes, archivos, HAS_SORTABLE, clock, nseq, pc, out>>

SpecMerge == Init /\ [][CallMerge]_vars

-----------------------------------------------------------------------------
(* The three converters called directly, with what they leave on disk.     *)

ConvContents == {"docx", "docxnotext", "junk", "empty"}
ConvSizes == {0, 800}
ConvEnvs == Envs({"absent", "fails", "ok"}, BOOLEAN, BOOLEAN, {{}, {1}})

CallReadDocx ==
    /\ \E content \in ConvContents, env \in ConvEnvs :
          LET file_bytes == FileBytes(content, 1)
          IN  call' = [fn |-> "safe_read_docx_text", arg |-> file_bytes, env |-> env,
                       ret |-> safe_read_docx_text(file_bytes, env),
                       files |-> safe_read_docx_text_files(file_bytes, env)]
    /\ UNCHANGED <<recortes, archivos, HAS_SORTABLE, clock, nseq, pc, out>>

CallImageToPdf ==
    /\ \E w \in ConvSizes, h \in ConvSizes, env \in ConvEnvs :
          LET img == ImageFile(1, w, h)
          IN  call' = [fn |-> "image_to_pdf_exact_bytes", arg |-> img, env |-> env,
                       ret |-> image_to_pdf_exact_bytes(img, "image", env),
                       files |-> image_to_pdf_exact_bytes_files(img, env)]
    /\ UNCHANGED <<recortes, archivos, HAS_SORTABLE, clock, nseq, pc, out>>

CallDocxToPdf ==
    /\ \E content \in ConvContents, env \in ConvEnvs :
          LET docx_bytes == FileBytes(content, 1)
          IN  call' = [fn |-> "docx_to_pdf_bytes", arg |-> docx_bytes, env |-> env,
                       ret |-> docx_to_pdf_bytes(docx_bytes, env),
                       files |-> docx_to_pdf_bytes_files(docx_bytes, env)]
    /\ UNCHANGED <<recortes, archivos, HAS_SORTABLE, clock, nseq, pc, out>>

NextConv == CallReadDocx \/ CallImageToPdf \/ CallDocxToPdf

SpecConv == Init /\ [][NextConv]_vars

-----------------------------------------------------------------------------
(* Claims about merge_pdfs, checked under SpecMerge.                       *)

\* an input parses when PdfReader opens it and every page of it can be added
ParsesOK(b) == b.fmt = "pdf" /\ b.bad = 0

RECURSIVE PagesOfParsed(_)
PagesOfParsed(list) ==
    IF list = <<>> THEN <<>>
    ELSE (IF ParsesOK(list[1]) THEN list[1].pages ELSE <<>>) \o PagesOfParsed(Tail(list))

\* C1: the pages of the result of merge_pdfs are the pages of the inputs that
\* parse, in the order of the list, and an input that fails to parse adds no
\* page (when nothing is left the result is the blank page of C2).
C1_MergeIsConcatOfParsed ==
    call.fn = "merge_pdfs" =>
        call.ret.pages = IF PagesOfParsed(call.arg) = <<>> THEN <<BlankPage>>
                         ELSE PagesOfParsed(call.arg)

\* C2: merge_pdfs never returns a document without pages; for an empty list
\* and for a list whose inputs all fail to parse the result is exactly one
\* blank page; when a page of an input survives, no blank page is added.
C2_BlankPageIffNothingParsed ==
    call.fn = "merge_pdfs" =>
        /\ Len(call.ret.pages) >= 1
        /\ (\A i \in 1..Len(call.arg) : ~ParsesOK(call.arg[i]))
              => call.ret.pages = <<BlankPage>>
        /\ (\E i \in 1..Len(call.arg) : call.arg[i].fmt = "pdf" /\ call.arg[i].pages # <<>>
                                          /\ call.arg[i].bad # 1)
              => \A k \in 1..Len(call.ret.pages) : call.ret.pages[k] # BlankPage

-----------------------------------------------------------------------------
(* Claims about the registry, checked under Spec.                          *)

OrdersOf(list) == {list[i].order : i \in 1..Len(list)}

IsOnePlusMax(v, S) == IF S = {} THEN v = 1 ELSE (v - 1) \in S /\ \A x \in S : x < v

ItemOf(b) ==
    LET all == AllItems(recortes, archivos)
    IN  all[CHOOSE i \in 1..Len(all) : all[i].seq = b.tag]

Registry == AllItems(recortes, archivos)

TagsOf(L) == {L[i].tag : i \in 1..Len(L)}

GenLists == {out.pdfs, out.A_list, out.B_list}

ComesBefore(a, b) ==
    \/ a.order < b.order
    \/ /\ a.order = b.order
       /\ \/ a.id.kind = "recorte" /\ b.id.kind = "archivo"
          \/ a.id.kind = b.id.kind /\ a.seq < b.seq

PageOwners(pdf) == {pdf.pages[k].of : k \in 1..Len(pdf.pages)}

\* the items something of which is in what a generation request gives
Contributors ==
    TagsOf(out.pdfs) \cup TagsOf(out.A_list) \cup TagsOf(out.B_list)
        \cup PageOwners(out.pdf) \cup PageOwners(out.pdfA) \cup PageOwners(out.pdfB)

\* C6: an item whose include flag is false has no buffer and no page in the
\* combined document nor in either group document; an included item that
\* renders is in the combined list, and in one of the group lists (so an item
\* included again contributes again, at the place C4 gives it); a generation
\* request changes no item of the registry.
C6_ExcludedItemsLeftOut ==
    /\ [](\A i \in 1..Len(Registry) :
            ~Registry[i].include => Registry[i].seq \notin Contributors)
    /\ [](\A i \in 1..Len(Registry) :
            (Registry[i].include /\ Truthy(item_to_pdf(Registry[i], out.env))) =>
                /\ out.kind \in {"combined", "warning"} => Registry[i].seq \in TagsOf(out.pdfs)
                /\ out.kind = "grouped" =>
                       Registry[i].seq \in TagsOf(out.A_list) \cup TagsOf(out.B_list))
    /\ [][pc = "generate" => (recortes' = recortes /\ archivos' = archivos)]_vars

\* a combined document made of one of two items, the other being excluded
C6_Witness ==
    /\ pc = "shown" /\ out.kind = "combined"
    /\ Len(Registry) = 2 /\ Len(out.pdfs) = 1
    /\ \E i, j \in 1..2 :
          /\ ~Registry[i].include /\ Registry[j].include
          /\ PageOwners(out.pdf) = {Registry[j].seq}

\* C9: no two items of the registry, clippings or files, have the same id.
C9_IdsUnique ==
    \A i, j \in 1..Len(Registry) : i # j => Registry[i].id # Registry[j].id

\* with C9: the id of an item does not change while the item is in its list
C9_IdsStable ==
    [][\A i \in 1..Len(Registry) : \A j \in 1..Len(Registry') :
          Registry[i].seq = Registry'[j].seq => Registry[i].id = Registry'[j].id]_vars

-----------------------------------------------------------------------------
(* Claims about the keyword grouping, checked under SpecGroup.             *)

\* csv[a..b] is a keyword of csv: what is left of a piece between two commas
\* (or an end of csv) when the blanks around it are taken away
IsKeyword(csv, a, b) ==
    /\ a <= b
    /\ \A k \in a..b : csv[k] # ","
    /\ csv[a] # " " /\ csv[b] # " "
    /\ \E p \in 0..(a - 1), q \in (b + 1)..(Len(csv) + 1) :
          /\ p = 0 \/ csv[p] = ","
          /\ q = Len(csv) + 1 \/ csv[q] = ","
          /\ \A k \in (p + 1)..(a - 1) : csv[k] = " "
          /\ \A k \in (b + 1)..(q - 1) : csv[k] = " "

Fold(s, ignore) == IF ignore THEN LowerStr(s) ELSE s

\* name contains a keyword of csv, both in lower case when case is ignored
HasKeyword(name, csv, ignore) ==
    \E a, b \in 1..Len(csv) :
        /\ IsKeyword(csv, a, b)
        /\ IsSubstr(Fold(SubSeq(csv, a, b), ignore), Fold(name, ignore))

Occurrences(L, tag) == Cardinality({i \in 1..Len(L) : L[i].tag = tag})

\* C5: after a grouping by keywords, every included item that renders to a
\* non-empty PDF is once in one of the two group lists and not in the other:
\* in A_list exactly when its name contains a keyword of keywordsA (the
\* non-blank pieces between the commas, without the blanks around them; in
\* lower case on both sides when case is ignored), else in B_list, whatever
\* keywordsB holds; nothing else is in the lists, and an empty or blank
\* keywordsA puts every item in B_list.
C5_GroupAIffKeywordElseB ==
    out.kind = "grouped" =>
        /\ \A i \in 1..Len(Registry) :
              LET it == Registry[i]
                  inA == Occurrences(out.A_list, it.seq)
                  inB == Occurrences(out.B_list, it.seq)
              IN  IF it.include /\ Truthy(item_to_pdf(it, out.env))
                  THEN /\ inA + inB = 1
                       /\ inA = 1 <=> HasKeyword(it.name, out.kwA, out.ignore_case)
                  ELSE inA + inB = 0
        /\ TagsOf(out.A_list) \cup TagsOf(out.B_list) \subseteq
              {Registry[i].seq : i \in 1..Len(Registry)}
        /\ Strip(out.kwA) = <<>> => out.A_list = <<>>

\* a clipping in A_list by a keyword that differs from its name in case only,
\* and a file in B_list whose name contains a keyword of keywordsB
C5_Witness ==
    /\ out.kind = "grouped" /\ out.ignore_case
    /\ Len(out.A_list) = 1 /\ Len(out.B_list) = 1
    /\ ~HasKeyword(ItemOf(out.A_list[1]).name, out.kwA, FALSE)
    /\ HasKeyword(ItemOf(out.B_list[1]).name, out.kwB, TRUE)
    /\ ~HasKeyword(ItemOf(out.B_list[1]).name, out.kwA, TRUE)

-----------------------------------------------------------------------------
(* Claims about the conversions and the combined document, checked under   *)
(* SpecGen.                                                                *)

ItemBySeq(n) == Registry[CHOOSE i \in 1..Len(Registry) : Registry[i].seq = n]

\* the turns of the generation loop that end with a non-empty pdfb
Survivors == {k \in 1..Len(out.locals) : Truthy(out.locals[k].pdfb)}

\* the i-th of them
Survivor(i) == CHOOSE k \in Survivors : Cardinality({j \in Survivors : j <= k}) = i

\* C7: for every included Word document, whatever its bytes and whatever
\* fails (native converter, text extraction, page renderer), docx_to_pdf_bytes
\* gives a buffer that is neither null nor empty, and the item has a page in
\* the combined document.
C7_DocxAlwaysGivesAPage ==
    out.kind \in {"combined", "warning"} =>
        \A k \in 1..Len(out.locals) :
            ItemBySeq(out.locals[k].seq).ext = Str_docx =>
                /\ out.locals[k].pdfb.fmt \notin {"None", "empty"}
                /\ out.locals[k].seq \in PageOwners(out.pdf)

\* C8 as claimed: the combined handler always ends with a PDF, which is the
\* one blank page when no item survives.
C8_CombinedAlwaysAPdf ==
    out.kind \in {"combined", "warning"} =>
        /\ out.pdf.fmt = "pdf" /\ Len(out.pdf.pages) >= 1
        /\ Survivors = {} => out.pdf.pages = <<BlankPage>>

\* C8, amended: when an item survives, the survivors go to merge_pdfs in the
\* order of the loop and the handler ends with its PDF, which has a page or
\* more, the pages of the survivors that parse whole among them and no page
\* of another item; when none survives (no item, none included, none that
\* renders) merge_pdfs is not called and the handler ends with the notice
\* that there is nothing to combine, and no PDF.
C8_MergesSurvivorsElseNotice ==
    out.kind \in {"combined", "warning"} =>
        /\ out.kind = "warning" <=> Survivors = {}
        /\ Len(out.pdfs) = Cardinality(Survivors)
        /\ \A i \in 1..Len(out.pdfs) : out.pdfs[i] = out.locals[Survivor(i)].pdfb
        /\ out.kind = "warning" => out.pdf = None
        /\ out.kind = "combined" =>
              /\ out.pdf.fmt = "pdf" /\ Len(out.pdf.pages) >= 1
              /\ PageOwners(out.pdf) \subseteq TagsOf(out.pdfs) \cup {BlankPage.of}
              /\ \A i \in 1..Len(out.pdfs) :
                    ParsesOK(out.pdfs[i]) =>
                        \A n \in 1..Len(out.pdfs[i].pages) :
                            \E m \in 1..Len(out.pdf.pages) :
                                out.pdf.pages[m] = out.pdfs[i].pages[n]

\* a request over a registry whose only included item is an image that cannot
\* be decoded: the notice, and no PDF
C8_Witness ==
    /\ out.kind = "warning" /\ out.pdf = None
    /\ Len(out.locals) = 1 /\ Len(Registry) = 2
    /\ ItemBySeq(out.locals[1].seq).ext \in ImageExts
    /\ out.locals[1].pdfb = None

\* the pdfb of every turn of the loop, in the order of the loop
LocalPdfs == [k \in 1..Len(out.locals) |-> out.locals[k].pdfb]

\* C10: an included image that cannot be decoded is skipped, and the pages of
\* the combined document are those of the other included items, in the order
\* of the loop, a buffer declared as PDF that does not parse adding none (the
\* blank page of C2 standing for no page at all).
C10_DecodeFailuresAddNothing ==
    out.kind \in {"combined", "warning"} =>
        /\ \A k \in 1..Len(out.locals) :
              LET it == ItemBySeq(out.locals[k].seq)
              IN  (it.ext \in ImageExts /\ it.bytes.fmt # "img") =>
                      out.locals[k].pdfb = None /\ it.seq \notin Contributors
        /\ out.kind = "combined" =>
              out.pdf.pages = IF PagesOfParsed(LocalPdfs) = <<>> THEN <<BlankPage>>
                              ELSE PagesOfParsed(LocalPdfs)

-----------------------------------------------------------------------------
(* Claims about the scratch files, checked under SpecConv.                 *)

Converters == {"safe_read_docx_text", "image_to_pdf_exact_bytes", "docx_to_pdf_bytes"}

\* C11: when safe_read_docx_text, image_to_pdf_exact_bytes or docx_to_pdf_bytes
\* returns, every scratch file or directory the call made is deleted, whether
\* the parsing, the rendering or the native converter failed or not.
C11_ScratchFilesDeleted ==
    call.fn \in Converters => call.files.made \subseteq call.files.removed

\* with C11: the .jpg file and the directory are always deleted; the only
\* scratch file left is the .docx file of a document python-docx cannot parse
C11_OnlyUnparsedDocxLeft ==
    call.fn \in Converters =>
        /\ \A f \in call.files.made \ call.files.removed : f.kind = "docx"
        /\ (call.files.made \ call.files.removed # {}) => call.arg.fmt # "docx"

====
